---- MODULE Spec2Model ----
(***************************************************************************)
(* sitebuilder: build() (src/sitebuilder/__init__.py), the Action classes   *)
(* (actions.py) and the URL ledger (urls.py) as a state machine.            *)
(*                                                                          *)
(* Text is a sequence of character codes (ASCII), so that str operations    *)
(* (removeprefix, endswith, line splitting, ordering) are computed and not  *)
(* assumed.  A pathlib.Path is the sequence of its components.              *)
(*                                                                          *)
(* Environment assumed by the model: basedir is given, basedir/src and      *)
(* basedir/templates exist and are readable, front matter of source files   *)
(* parses, and nothing touches the file system while a build runs.          *)
(***************************************************************************)
EXTENDS Integers, Sequences, FiniteSets, TLC

VARIABLES
    urlsFile,     \* basedir/urls.txt: [exists, text]
    redirects,    \* basedir/redirects.toml: [wellformed, entries]
    srcFiles,     \* the files below basedir/src: set of [path, raises]
    dest,         \* basedir/build: [kind, tree]
    pc,           \* position of the coordinator inside build()
    old_urls,     \* build(): old_urls.urls
    actions,      \* build(): actions
    url_actions,  \* build(): url_actions, a sequence of [url, names] in dict order
    futures,      \* build(): futures, one per action
    wpc,          \* position of each executor thread inside Action.run
    log,          \* what log() has printed, in order
    ret,          \* how build() ended: [kind, code, exc]
    nbuild,       \* number of build() invocations started
    start,        \* file system as it was when the current build() started
    prev,         \* outcome of the previous build()
    ledgerIn,     \* ledger specification: members in insertion order
    ledgerOut,    \* ledger specification: what Urls.read returned
    lpc           \* ledger specification: position

vars == <<urlsFile, redirects, srcFiles, dest, pc, old_urls, actions, url_actions,
          futures, wpc, log, ret, nbuild, start, prev, ledgerIn, ledgerOut, lpc>>

(***************************************************************************)
(* Bounds                                                                   *)
(***************************************************************************)
MaxBuilds == 2
MaxLen == 3
MaxUrls == 2

(***************************************************************************)
(* str                                                                      *)
(***************************************************************************)
NL == <<10>>
SLASH == <<47>>

StartsWith(s, p) == Len(s) >= Len(p) /\ SubSeq(s, 1, Len(p)) = p

EndsWith(s, p) == Len(s) >= Len(p) /\ SubSeq(s, Len(s) - Len(p) + 1, Len(s)) = p

RemovePrefix(s, p) == IF StartsWith(s, p) THEN SubSeq(s, Len(p) + 1, Len(s)) ELSE s

RemoveSuffix(s, p) == IF EndsWith(s, p) THEN SubSeq(s, 1, Len(s) - Len(p)) ELSE s

\* str.__lt__: lexicographic by code point
StrLess(a, b) ==
    \E k \in 0..(IF Len(a) < Len(b) THEN Len(a) ELSE Len(b)) :
        /\ \A j \in 1..k : a[j] = b[j]
        /\ \/ k = Len(a) /\ k < Len(b)
           \/ k < Len(a) /\ k < Len(b) /\ a[k + 1] < b[k + 1]

RECURSIVE Concat(_)
Concat(ss) == IF ss = <<>> THEN <<>> ELSE Head(ss) \o Concat(Tail(ss))

\* index of the first occurrence of character c in s, 0 when there is none
FirstIndex(s, c) ==
    IF \E i \in 1..Len(s) : s[i] = c
    THEN CHOOSE i \in 1..Len(s) : s[i] = c /\ \A j \in 1..(i - 1) : s[j] # c
    ELSE 0

\* index of the last occurrence of character c in s, 0 when there is none
LastIndex(s, c) ==
    IF \E i \in 1..Len(s) : s[i] = c
    THEN CHOOSE i \in 1..Len(s) : s[i] = c /\ \A j \in (i + 1)..Len(s) : s[j] # c
    ELSE 0

\* the lines of a text file as iteration over the file object yields them: each
\* line keeps its terminating newline, the last one may lack it
RECURSIVE Lines(_)
Lines(s) ==
    IF s = <<>> THEN <<>>
    ELSE LET i == FirstIndex(s, 10)
         IN  IF i = 0 THEN <<s>>
             ELSE <<SubSeq(s, 1, i)>> \o Lines(SubSeq(s, i + 1, Len(s)))

(***************************************************************************)
(* pathlib                                                                  *)
(***************************************************************************)
\* str.split("/")
RECURSIVE SplitSlash(_)
SplitSlash(s) ==
    LET i == FirstIndex(s, 47)
    IN  IF i = 0 THEN <<s>>
        ELSE <<SubSeq(s, 1, i - 1)>> \o SplitSlash(SubSeq(s, i + 1, Len(s)))

\* Path(s) for a relative s: empty and "." components are dropped
PathOf(s) == SelectSeq(SplitSlash(s), LAMBDA c : c # <<>> /\ c # <<46>>)

\* str(path)
RECURSIVE JoinSlash(_)
JoinSlash(p) ==
    IF p = <<>> THEN <<>>
    ELSE IF Len(p) = 1 THEN p[1]
    ELSE p[1] \o SLASH \o JoinSlash(Tail(p))

PathStr(p) == IF p = <<>> THEN <<46>> ELSE JoinSlash(p)

\* PurePath.suffix of the final component
Suffix(p) ==
    IF p = <<>> THEN <<>>
    ELSE LET name == p[Len(p)]
             i == LastIndex(name, 46)
         IN  IF 1 < i /\ i < Len(name) THEN SubSeq(name, i, Len(name)) ELSE <<>>

\* PurePath.with_suffix("")
WithoutSuffix(p) ==
    LET name == p[Len(p)]
    IN  [p EXCEPT ![Len(p)] = SubSeq(name, 1, Len(name) - Len(Suffix(p)))]

Parent(p) == SubSeq(p, 1, Len(p) - 1)

Prefixes(p) == {SubSeq(p, 1, k) : k \in 1..Len(p)}

(***************************************************************************)
(* urls.py                                                                  *)
(***************************************************************************)
\* "# sitebuilder URLs\n"
FILE_HEADER == <<35, 32, 115, 105, 116, 101, 98, 117, 105, 108, 100, 101, 114,
                 32, 85, 82, 76, 115, 10>>

NoFile == [exists |-> FALSE, text |-> <<>>]

File(text) == [exists |-> TRUE, text |-> text]

\* UrlPath.__post_init__: the path must start with "/"
UrlPathOk(path) == StartsWith(path, SLASH)

\* the loop of Urls.read over the lines after the header: the set read so far,
\* or the exception the loop raises
RECURSIVE ReadUrls(_, _)
ReadUrls(lines, urls) ==
    IF lines = <<>> THEN [exc |-> "none", urls |-> urls]
    ELSE LET url == RemoveSuffix(Head(lines), NL)
         IN  IF ~UrlPathOk(url) THEN [exc |-> "ValueError", urls |-> {}]
             ELSE IF url \in urls THEN [exc |-> "RuntimeError", urls |-> {}]
             ELSE ReadUrls(Tail(lines), urls \cup {url})

UrlsReadAnyHeader(file) ==
    IF ~file.exists THEN [exc |-> "none", urls |-> {}]
    ELSE LET lines == Lines(file.text)
         IN  IF lines = <<>> THEN [exc |-> "StopIteration", urls |-> {}]
             ELSE ReadUrls(Tail(lines), {})

\* Urls.read(basedir): [exc, urls]
UrlsRead(file) ==
    IF ~file.exists THEN [exc |-> "none", urls |-> {}]
    ELSE LET lines == Lines(file.text)
         IN  IF lines = <<>> THEN [exc |-> "StopIteration", urls |-> {}]
             ELSE IF Head(lines) # FILE_HEADER THEN [exc |-> "RuntimeError", urls |-> {}]
             ELSE ReadUrls(Tail(lines), {})

\* sorted(self.urls): UrlPath orders by its path
RECURSIVE Sorted(_)
Sorted(S) ==
    IF S = {} THEN <<>>
    ELSE LET m == CHOOSE x \in S : \A y \in S : y # x => StrLess(x, y)
         IN  <<m>> \o Sorted(S \ {m})

\* the text Urls.write writes
LedgerText(urls) ==
    LET order == Sorted(urls)
    IN  FILE_HEADER \o Concat([i \in 1..Len(order) |-> order[i] \o NL])

\* the first line as f.readline() returns it ("" at end of file)
ReadLine(text) == IF text = <<>> THEN <<>> ELSE Head(Lines(text))

UrlsWriteUnchecked(file, urls) == [exc |-> "none", file |-> File(LedgerText(urls))]

\* Urls(urls).write(basedir) on the file as it is: [exc, file]
UrlsWrite(file, urls) ==
    IF file.exists /\ ReadLine(file.text) # FILE_HEADER
    THEN [exc |-> "FileExistsError", file |-> file]
    ELSE [exc |-> "none", file |-> File(LedgerText(urls))]

(***************************************************************************)
(* The destination directory.  A tree is a set of entries                   *)
(* [path, kind, data], path relative to destdir; the empty path is destdir  *)
(* itself.                                                                  *)
(***************************************************************************)
\* ".sitebuilder-dest-dir"
SITEBUILDER_DEST_MARKER_FILENAME ==
    <<46, 115, 105, 116, 101, 98, 117, 105, 108, 100, 101, 114, 45, 100, 101,
      115, 116, 45, 100, 105, 114>>

DirEntry(p) == [path |-> p, kind |-> "dir", data |-> <<"dir", <<>>>>]

FileEntry(p, data) == [path |-> p, kind |-> "file", data |-> data]

MarkerPath == <<SITEBUILDER_DEST_MARKER_FILENAME>>

MisnamedMarkerEntry ==
    FileEntry(<<SITEBUILDER_DEST_MARKER_FILENAME \o <<126>>>>, <<"empty", <<>>>>)

MarkerEntry == FileEntry(MarkerPath, <<"empty", <<>>>>)

IsDir(tree, p) == p = <<>> \/ \E e \in tree : e.path = p /\ e.kind = "dir"

IsFile(tree, p) == \E e \in tree : e.path = p /\ e.kind = "file"

\* Path.mkdir(parents=True, exist_ok=True) of directory d: [exc, tree]
MkdirParents(tree, d) ==
    IF \E q \in Prefixes(d) : IsFile(tree, q)
    THEN [exc |-> IF IsFile(tree, d) THEN "FileExistsError" ELSE "NotADirectoryError",
          tree |-> tree]
    ELSE [exc |-> "none",
          tree |-> tree \cup {DirEntry(q) : q \in Prefixes(d)}]

\* Path.write_text / Path.write_bytes of file p, taken as one step: [exc, tree]
WriteFile(tree, p, data) ==
    IF IsDir(tree, p) THEN [exc |-> "IsADirectoryError", tree |-> tree]
    ELSE IF \E q \in Prefixes(Parent(p)) : IsFile(tree, q)
    THEN [exc |-> "NotADirectoryError", tree |-> tree]
    ELSE IF ~IsDir(tree, Parent(p))
    THEN [exc |-> "FileNotFoundError", tree |-> tree]
    ELSE [exc |-> "none",
          tree |-> {e \in tree : e.path # p} \cup {FileEntry(p, data)}]

NoDest == [kind |-> "absent", tree |-> {}]

DestDir(tree) == [kind |-> "dir", tree |-> tree]

HasMarker(d) == d.kind = "dir" /\ IsFile(d.tree, MarkerPath)

(***************************************************************************)
(* actions.py                                                               *)
(***************************************************************************)
\* "index.html"
INDEX_HTML == <<105, 110, 100, 101, 120, 46, 104, 116, 109, 108>>

\* ".md", the suffix the caller's action_config maps to an index_html_processor
MD_SUFFIX == <<46, 109, 100>>

NoPath == <<>>

\* Copy(source=path), IndexHtmlProcessor(source=path)
SourceActionOf(cls, path) ==
    [cls |-> cls, source |-> path, old_url |-> <<>>, new_url |-> <<>>]

\* Redirect(old_url, new_url): source is None
RedirectOf(old_url, new_url) ==
    [cls |-> "Redirect", source |-> NoPath, old_url |-> old_url, new_url |-> new_url]

\* combined_actions.get(path.suffix), Copy when it is None
ActionClass(path) == IF Suffix(path) = MD_SUFFIX THEN "IndexHtmlProcessor" ELSE "Copy"

\* Action.dest_path and its override in IndexHtmlProcessor
DestPath(cls, path) ==
    IF cls = "IndexHtmlProcessor" THEN WithoutSuffix(path) \o <<INDEX_HTML>> ELSE path

\* the dest_relpath Redirect.run computes
RedirectDestRelpath(old_url) ==
    LET old_relative == PathOf(RemovePrefix(old_url, SLASH))
    IN  IF EndsWith(old_url, SLASH) THEN old_relative \o <<INDEX_HTML>> ELSE old_relative

\* the dest_relpath of an action's run
DestRelpath(a) ==
    IF a.cls = "Redirect" THEN RedirectDestRelpath(a.old_url)
    ELSE DestPath(a.cls, a.source)

\* Redirect.url and SourceAction.url: [exc, url]
Url(a) ==
    LET path == IF a.cls = "Redirect" THEN a.old_url
                ELSE SLASH \o PathStr(DestPath(a.cls, a.source))
    IN  IF UrlPathOk(path) THEN [exc |-> "none", url |-> path]
        ELSE [exc |-> "ValueError", url |-> <<>>]

\* what an action's transformation writes to its destination file
Output(a) ==
    IF a.cls = "Redirect" THEN <<"refresh", a.new_url>>
    ELSE IF a.cls = "Copy" THEN <<"bytes", PathStr(a.source)>>
    ELSE <<"processed", PathStr(a.source)>>

Pending == [state |-> "pending", success |-> FALSE, warnings |-> <<>>, exc |-> "none"]

\* a future holding a Result
Returned(success, warnings) ==
    [state |-> "result", success |-> success, warnings |-> warnings, exc |-> "none"]

\* a future holding the exception that left Action.run
Raised(exc) ==
    [state |-> "exception", success |-> FALSE, warnings |-> <<>>, exc |-> exc]

(***************************************************************************)
(* The inputs of a build: what basedir holds when build() is called         *)
(***************************************************************************)
\* "/foo/", "/foo", "/bar", "old", "foo.md", "foo", "bar", "notes"
URL_FOO_DIR == <<47, 102, 111, 111, 47>>
URL_FOO == <<47, 102, 111, 111>>
URL_BAR == <<47, 98, 97, 114>>
REL_OLD == <<111, 108, 100>>
FOO_MD == <<102, 111, 111, 46, 109, 100>>
FOO == <<102, 111, 111>>
BAR == <<98, 97, 114>>
NOTES == <<110, 111, 116, 101, 115>>

\* src/foo.md (its transformation may raise), src/foo/index.html, src/bar
SourceFileSets ==
    {md \cup html \cup bar :
        md \in {{}, {[path |-> <<FOO_MD>>, raises |-> FALSE]},
                    {[path |-> <<FOO_MD>>, raises |-> TRUE]}},
        html \in {{}, {[path |-> <<FOO, INDEX_HTML>>, raises |-> FALSE]}},
        bar \in {{}, {[path |-> <<BAR>>, raises |-> FALSE]}}}

\* the entries redirects.toml may hold, in file order
RedirectEntries ==
    << <<URL_FOO_DIR, URL_BAR>>, <<URL_FOO, URL_BAR>>, <<URL_BAR, URL_FOO_DIR>>,
       <<REL_OLD, URL_BAR>> >>

SubSeqBy(q, keep) == SelectSeq([i \in 1..Len(q) |-> IF i \in keep THEN <<q[i]>> ELSE <<>>],
                               LAMBDA x : x # <<>>)

RedirectFiles ==
    {[wellformed |-> FALSE, entries |-> <<>>]} \cup
    {[wellformed |-> TRUE,
      entries |-> [i \in 1..Len(SubSeqBy(RedirectEntries, keep)) |->
                      SubSeqBy(RedirectEntries, keep)[i][1]]] :
        keep \in SUBSET (1..Len(RedirectEntries))}

\* urls.txt: absent, not a ledger, or the ledger an earlier build wrote
LedgerFiles ==
    {NoFile, File(<<120, 10>>)} \cup
    {File(LedgerText(S)) : S \in SUBSET {URL_FOO_DIR, URL_BAR}}

\* build/: absent, a regular file, a directory of the user's, or the directory an
\* earlier build left
DestDirs ==
    {NoDest,
     [kind |-> "file", tree |-> {}],
     DestDir({}),
     DestDir({FileEntry(<<NOTES>>, <<"user", <<>>>>)}),
     DestDir({MarkerEntry, FileEntry(<<BAR>>, <<"bytes", BAR>>)})}

Running == [kind |-> "running", code |-> -1, exc |-> "none"]

Return(code) == [kind |-> "return", code |-> code, exc |-> "none"]

Raise(exc) == [kind |-> "raise", code |-> -1, exc |-> exc]

LogEntry(kind, url, names, ok) == [kind |-> kind, url |-> url, names |-> names, ok |-> ok]

Snapshot ==
    [dest |-> dest, urlsFile |-> urlsFile, ret |-> ret, began |-> start.dest,
     log |-> log]

LedgerIdle ==
    /\ ledgerIn = <<>>
    /\ ledgerOut = [exc |-> "none", urls |-> {}]
    /\ lpc = "off"

Init ==
    /\ urlsFile \in LedgerFiles
    /\ redirects \in RedirectFiles
    /\ srcFiles \in SourceFileSets
    /\ dest \in DestDirs
    /\ pc = "read_urls"
    /\ old_urls = {}
    /\ actions = <<>>
    /\ url_actions = <<>>
    /\ futures = <<>>
    /\ wpc = <<>>
    /\ log = <<>>
    /\ ret = Running
    /\ nbuild = 1
    /\ start = [dest |-> dest, urlsFile |-> urlsFile, ret |-> Running]
    /\ prev = [dest |-> NoDest, urlsFile |-> NoFile, ret |-> Running, began |-> NoDest,
               log |-> <<>>]
    /\ LedgerIdle

(***************************************************************************)
(* build(), the coordinator                                                 *)
(***************************************************************************)
Inputs == <<redirects, srcFiles>>

History == <<nbuild, start, prev>>

LedgerVars == <<ledgerIn, ledgerOut, lpc>>

\* build() ends: by return or by an exception leaving it
Finish(how) == pc' = "done" /\ ret' = how

\* old_urls = Urls.read(basedir)
ReadLedger ==
    /\ pc = "read_urls"
    /\ LET r == UrlsRead(urlsFile)
       IN  IF r.exc # "none"
           THEN Finish(Raise(r.exc)) /\ UNCHANGED old_urls
           ELSE pc' = "load_actions" /\ old_urls' = r.urls /\ UNCHANGED ret
    /\ UNCHANGED <<urlsFile, dest, actions, url_actions, futures, wpc, log>>
    /\ UNCHANGED <<Inputs, History, LedgerVars>>

\* the orders in which srcdir.walk() may yield the files: top-down, the files
\* of one directory in the order the operating system lists them
WalkOrders(files) ==
    {q \in [1..Cardinality(files) -> files] :
        /\ \A i, j \in 1..Cardinality(files) : i # j => q[i] # q[j]
        /\ \A i, j \in 1..Cardinality(files) :
              i < j => Len(q[i].path) <= Len(q[j].path)}

\* "Load actions from srcdir" and "Load redirects"
LoadActions ==
    /\ pc = "load_actions"
    /\ \E q \in WalkOrders(srcFiles) :
          LET fromSrc == [i \in 1..Len(q) |->
                              SourceActionOf(ActionClass(q[i].path), q[i].path)]
              fromToml == [i \in 1..Len(redirects.entries) |->
                              RedirectOf(redirects.entries[i][1], redirects.entries[i][2])]
          IN  IF ~redirects.wellformed
              THEN Finish(Raise("TOMLDecodeError")) /\ actions' = fromSrc
              ELSE pc' = "gather_urls" /\ actions' = fromSrc \o fromToml /\ UNCHANGED ret
    /\ UNCHANGED <<urlsFile, dest, old_urls, url_actions, futures, wpc, log>>
    /\ UNCHANGED <<Inputs, History, LedgerVars>>

\* url_actions.setdefault(action.url(srcdir), []).append(str(action)), for the
\* actions in order; acc is the dict so far, in insertion order
RECURSIVE GatherUrlActions(_, _)
GatherUrlActions(acts, acc) ==
    IF acts = <<>> THEN acc
    ELSE LET a == Head(acts)
             u == Url(a).url
             at == {i \in 1..Len(acc) : acc[i].url = u}
         IN  IF at = {}
             THEN GatherUrlActions(Tail(acts), Append(acc, [url |-> u, names |-> <<a>>]))
             ELSE LET i == CHOOSE i \in at : TRUE
                  IN  GatherUrlActions(Tail(acts),
                          [acc EXCEPT ![i].names = Append(acc[i].names, a)])

\* "Gather the complete set of URLs that will be produced"; a url() that raises
\* ends build(), and its partly filled dict with it
GatherUrls ==
    /\ pc = "gather_urls"
    /\ IF \E i \in 1..Len(actions) : Url(actions[i]).exc # "none"
       THEN Finish(Raise("ValueError")) /\ UNCHANGED url_actions
       ELSE /\ pc' = "check_conflicts"
            /\ url_actions' = GatherUrlActions(actions, <<>>)
            /\ UNCHANGED ret
    /\ UNCHANGED <<urlsFile, dest, old_urls, actions, futures, wpc, log>>
    /\ UNCHANGED <<Inputs, History, LedgerVars>>

ConflictingOffByOne(ua) == {i \in 1..Len(ua) : Len(ua[i].names) > 2}

Conflicting(ua) == {i \in 1..Len(ua) : Len(ua[i].names) > 1}

Min(S) == CHOOSE x \in S : \A y \in S : x <= y

\* "Check for conflicting outputs": the loop logs the first url with more than
\* one action and returns from inside the loop
ConflictLog(ua) ==
    LET i == Min(Conflicting(ua))
    IN  <<LogEntry("conflict", ua[i].url, ua[i].names, FALSE)>>

CheckConflicts ==
    /\ pc = "check_conflicts"
    /\ IF Conflicting(url_actions) # {}
       THEN Finish(Return(1)) /\ log' = log \o ConflictLog(url_actions)
       ELSE pc' = "clear_dest" /\ UNCHANGED <<ret, log>>
    /\ UNCHANGED <<urlsFile, dest, old_urls, actions, url_actions, futures, wpc>>
    /\ UNCHANGED <<Inputs, History, LedgerVars>>

MayDeleteAnyDirectory(d) == d.kind = "dir"

\* whether "Clear out the dest dir" may rmtree the directory
MayDelete(d) == HasMarker(d)

\* "Clear out the dest dir"
ClearDest ==
    /\ pc = "clear_dest"
    /\ IF dest.kind = "absent"
       THEN pc' = "mkdir_dest" /\ UNCHANGED <<dest, ret, log>>
       ELSE IF dest.kind = "file"
       THEN Finish(Raise("FileExistsError")) /\ UNCHANGED <<dest, log>>
       ELSE IF ~MayDelete(dest)
       THEN /\ Finish(Return(1))
            /\ log' = Append(log, LogEntry("nomarker", <<>>, <<>>, FALSE))
            /\ UNCHANGED dest
       ELSE pc' = "mkdir_dest" /\ dest' = NoDest /\ UNCHANGED <<ret, log>>
    /\ UNCHANGED <<urlsFile, old_urls, actions, url_actions, futures, wpc>>
    /\ UNCHANGED <<Inputs, History, LedgerVars>>

\* destdir.mkdir()
MkdirDest ==
    /\ pc = "mkdir_dest"
    /\ IF dest.kind # "absent"
       THEN Finish(Raise("FileExistsError")) /\ UNCHANGED dest
       ELSE pc' = "touch_marker" /\ dest' = DestDir({}) /\ UNCHANGED ret
    /\ UNCHANGED <<urlsFile, old_urls, actions, url_actions, futures, wpc, log>>
    /\ UNCHANGED <<Inputs, History, LedgerVars>>

\* (destdir / SITEBUILDER_DEST_MARKER_FILENAME).touch()
TouchMarker ==
    /\ pc = "touch_marker"
    /\ pc' = "submit"
    /\ dest' = DestDir(dest.tree \cup {MarkerEntry})
    /\ UNCHANGED <<urlsFile, old_urls, actions, url_actions, futures, wpc, log, ret>>
    /\ UNCHANGED <<Inputs, History, LedgerVars>>

\* loop.run_in_executor(None, action.run, srcdir, destdir, resources), per action
Submit ==
    /\ pc = "submit"
    /\ pc' = "gather"
    /\ futures' = [i \in 1..Len(actions) |-> Pending]
    /\ wpc' = [i \in 1..Len(actions) |-> "queued"]
    /\ UNCHANGED <<urlsFile, dest, old_urls, actions, url_actions, log, ret>>
    /\ UNCHANGED <<Inputs, History, LedgerVars>>

(***************************************************************************)
(* Action.run in the executor's threads.  The default executor has at       *)
(* least five threads, more than a build of this model has actions, so      *)
(* every submitted action may run at any time.                              *)
(***************************************************************************)
Workers == 1..Len(wpc)

SourceRaises(a) == \E f \in srcFiles : f.path = a.source /\ f.raises

\* SourceAction.run up to the try: dest.parent.mkdir(parents=True, exist_ok=True)
EnsureParents(tree, a) == MkdirParents(tree, Parent(DestRelpath(a)))

RunMkdir(i) ==
    /\ wpc[i] = "queued"
    /\ actions[i].cls # "Redirect"
    /\ LET r == EnsureParents(dest.tree, actions[i])
       IN  IF r.exc # "none"
           THEN /\ futures' = [futures EXCEPT ![i] = Raised(r.exc)]
                /\ wpc' = [wpc EXCEPT ![i] = "done"]
                /\ UNCHANGED dest
           ELSE /\ wpc' = [wpc EXCEPT ![i] = "run_inner"]
                /\ dest' = DestDir(r.tree)
                /\ UNCHANGED futures
    /\ UNCHANGED <<urlsFile, pc, old_urls, actions, url_actions, log, ret>>
    /\ UNCHANGED <<Inputs, History, LedgerVars>>

\* the except clause of SourceAction.run: the future's value when run_inner
\* raised exc
Caught(exc) == Returned(FALSE, <<exc>>)

\* SourceAction.run from the try on: run_inner, and the Result returned
RunInner(i) ==
    /\ wpc[i] = "run_inner"
    /\ LET a == actions[i]
           r == WriteFile(dest.tree, DestRelpath(a), Output(a))
       IN  IF SourceRaises(a)
           THEN futures' = [futures EXCEPT ![i] = Caught("Exception")] /\ UNCHANGED dest
           ELSE IF r.exc # "none"
           THEN futures' = [futures EXCEPT ![i] = Caught(r.exc)] /\ UNCHANGED dest
           ELSE /\ futures' = [futures EXCEPT ![i] = Returned(TRUE, <<>>)]
                /\ dest' = DestDir(r.tree)
    /\ wpc' = [wpc EXCEPT ![i] = "done"]
    /\ UNCHANGED <<urlsFile, pc, old_urls, actions, url_actions, log, ret>>
    /\ UNCHANGED <<Inputs, History, LedgerVars>>

\* Redirect.run: dest.write_text(...) with nothing around it
RunRedirect(i) ==
    /\ wpc[i] = "queued"
    /\ actions[i].cls = "Redirect"
    /\ LET a == actions[i]
           r == WriteFile(dest.tree, DestRelpath(a), Output(a))
       IN  IF r.exc # "none"
           THEN futures' = [futures EXCEPT ![i] = Raised(r.exc)] /\ UNCHANGED dest
           ELSE /\ futures' = [futures EXCEPT ![i] = Returned(TRUE, <<>>)]
                /\ dest' = DestDir(r.tree)
    /\ wpc' = [wpc EXCEPT ![i] = "done"]
    /\ UNCHANGED <<urlsFile, pc, old_urls, actions, url_actions, log, ret>>
    /\ UNCHANGED <<Inputs, History, LedgerVars>>

(***************************************************************************)
(* build(), after the actions were submitted                                *)
(***************************************************************************)
\* await gather(*futures) when a future holds an exception: gather raises it
\* into build() as soon as it is set and waits for no other future
GatherRaises ==
    /\ pc = "gather"
    /\ \E i \in 1..Len(futures) :
          /\ futures[i].state = "exception"
          /\ Finish(Raise(futures[i].exc))
    /\ UNCHANGED <<urlsFile, dest, old_urls, actions, url_actions, futures, wpc, log>>
    /\ UNCHANGED <<Inputs, History, LedgerVars>>

\* log(f"{result}") and the warnings of one Result
ResultLog(i) ==
    <<LogEntry("result", PathStr(DestRelpath(actions[i])), <<>>, futures[i].success)>>
    \o [k \in 1..Len(futures[i].warnings) |->
            LogEntry("warning", PathStr(DestRelpath(actions[i])), <<>>, FALSE)]

\* for result in await gather(*futures): every future holds a Result
GatherResults ==
    /\ pc = "gather"
    /\ \A i \in 1..Len(futures) : futures[i].state = "result"
    /\ pc' = "audit"
    /\ log' = log \o Concat([i \in 1..Len(futures) |-> ResultLog(i)])
    /\ UNCHANGED <<urlsFile, dest, old_urls, actions, url_actions, futures, wpc, ret>>
    /\ UNCHANGED <<Inputs, History, LedgerVars>>

NewUrlsOfSucceeded(ua) ==
    {ua[i].url : i \in {i \in 1..Len(ua) :
        \A k \in 1..Len(actions) : actions[k] = ua[i].names[1] => futures[k].success}}

\* new_urls = set(url_actions.keys())
NewUrls(ua) == {ua[i].url : i \in 1..Len(ua)}

AuditPassedReturnsOne == Return(1)

\* the exit code of a build whose audit found nothing forgotten
AuditPassed == Return(0)

ForgottenNone(old, new) == {}

\* forgotten_urls = old_urls.urls - new_urls
ForgottenUrls(old, new) == old \ new

\* "Check for forgotten URLs and either fail or update the URLs file"
Audit ==
    /\ pc = "audit"
    /\ LET new_urls == NewUrls(url_actions)
           forgotten_urls == ForgottenUrls(old_urls, new_urls)
           order == Sorted(forgotten_urls)
           w == UrlsWrite(urlsFile, new_urls)
       IN  IF forgotten_urls # {}
           THEN /\ log' = log \o [k \in 1..Len(order) |->
                                     LogEntry("forgotten", order[k], <<>>, FALSE)]
                /\ Finish(Return(1))
                /\ UNCHANGED urlsFile
           ELSE IF w.exc # "none"
           THEN Finish(Raise(w.exc)) /\ UNCHANGED <<urlsFile, log>>
           ELSE Finish(AuditPassed) /\ urlsFile' = w.file /\ UNCHANGED log
    /\ UNCHANGED <<dest, old_urls, actions, url_actions, futures, wpc>>
    /\ UNCHANGED <<Inputs, History, LedgerVars>>

\* the process ends once the executor's threads have ended; build() is then
\* invoked again on what the last build left
NextBuild ==
    /\ pc = "done"
    /\ nbuild < MaxBuilds
    /\ \A i \in Workers : wpc[i] = "done"
    /\ nbuild' = nbuild + 1
    /\ prev' = Snapshot
    /\ start' = [dest |-> dest, urlsFile |-> urlsFile, ret |-> Running]
    /\ pc' = "read_urls"
    /\ old_urls' = {}
    /\ actions' = <<>>
    /\ url_actions' = <<>>
    /\ futures' = <<>>
    /\ wpc' = <<>>
    /\ log' = <<>>
    /\ ret' = Running
    /\ UNCHANGED <<urlsFile, dest, Inputs, LedgerVars>>

Next ==
    \/ ReadLedger
    \/ LoadActions
    \/ GatherUrls
    \/ CheckConflicts
    \/ ClearDest
    \/ MkdirDest
    \/ TouchMarker
    \/ Submit
    \/ \E i \in Workers : RunMkdir(i)
    \/ \E i \in Workers : RunInner(i)
    \/ \E i \in Workers : RunRedirect(i)
    \/ GatherRaises
    \/ GatherResults
    \/ Audit
    \/ NextBuild

Spec == Init /\ [][Next]_vars

(***************************************************************************)
(* A site that changes between builds: build() is invoked again after the   *)
(* sources and the redirects were edited; urls.txt and build/ are what the  *)
(* last build left                                                          *)
(***************************************************************************)
Rebuild ==
    /\ pc = "done"
    /\ nbuild < MaxBuilds
    /\ \A i \in Workers : wpc[i] = "done"
    /\ redirects' \in RedirectFiles
    /\ srcFiles' \in SourceFileSets
    /\ nbuild' = nbuild + 1
    /\ start' = [dest |-> dest, urlsFile |-> urlsFile, ret |-> Running]
    /\ pc' = "read_urls"
    /\ old_urls' = {}
    /\ actions' = <<>>
    /\ url_actions' = <<>>
    /\ futures' = <<>>
    /\ wpc' = <<>>
    /\ log' = <<>>
    /\ ret' = Running
    /\ UNCHANGED <<urlsFile, dest, prev, LedgerVars>>

EvolveNext ==
    \/ ReadLedger
    \/ LoadActions
    \/ GatherUrls
    \/ CheckConflicts
    \/ ClearDest
    \/ MkdirDest
    \/ TouchMarker
    \/ Submit
    \/ \E i \in Workers : RunMkdir(i)
    \/ \E i \in Workers : RunInner(i)
    \/ \E i \in Workers : RunRedirect(i)
    \/ GatherRaises
    \/ GatherResults
    \/ Audit
    \/ Rebuild

EvolveSpec == Init /\ [][EvolveNext]_vars

(***************************************************************************)
(* The ledger alone: Urls(S).write(basedir), then Urls.read(basedir), for   *)
(* every small set S of UrlPath values and every urls.txt already there     *)
(***************************************************************************)
\* the characters of the paths drawn: newline, "/", "a"
PathChars == {10, 47, 97}

\* the strings UrlPath accepts, of at most MaxLen characters
UrlPaths ==
    {s \in UNION {[1..n -> PathChars] : n \in 1..MaxLen} : UrlPathOk(s)}

\* the members in the order they were inserted into the set
Insertions ==
    {q \in UNION {[1..n -> UrlPaths] : n \in 0..MaxUrls} :
        \A i, j \in 1..Len(q) : i # j => q[i] # q[j]}

\* set(...) of the inserted members
SetOf(q) == {q[i] : i \in 1..Len(q)}

LedgerInit ==
    /\ urlsFile \in {NoFile, File(<<>>), File(<<120, 10>>), File(FILE_HEADER),
                     File(LedgerText({URL_BAR}))}
    /\ ledgerIn \in Insertions
    /\ ledgerOut = [exc |-> "none", urls |-> {}]
    /\ lpc = "write"
    /\ redirects = [wellformed |-> TRUE, entries |-> <<>>]
    /\ srcFiles = {}
    /\ dest = NoDest
    /\ pc = "off"
    /\ old_urls = {}
    /\ actions = <<>>
    /\ url_actions = <<>>
    /\ futures = <<>>
    /\ wpc = <<>>
    /\ log = <<>>
    /\ ret = Running
    /\ nbuild = 0
    /\ start = [dest |-> dest, urlsFile |-> urlsFile, ret |-> Running]
    /\ prev = [dest |-> NoDest, urlsFile |-> NoFile, ret |-> Running, began |-> NoDest,
               log |-> <<>>]

BuildVars == <<redirects, srcFiles, dest, pc, old_urls, actions, url_actions,
               futures, wpc, log, ret, nbuild, start, prev>>

\* Urls(set).write(basedir)
LedgerWrite ==
    /\ lpc = "write"
    /\ LET w == UrlsWrite(urlsFile, SetOf(ledgerIn))
       IN  IF w.exc # "none"
           THEN lpc' = "refused" /\ UNCHANGED urlsFile
           ELSE lpc' = "read" /\ urlsFile' = w.file
    /\ UNCHANGED <<ledgerIn, ledgerOut, BuildVars>>

\* Urls.read(basedir)
LedgerRead ==
    /\ lpc = "read"
    /\ ledgerOut' = UrlsRead(urlsFile)
    /\ lpc' = "done"
    /\ UNCHANGED <<urlsFile, ledgerIn, BuildVars>>

LedgerNext == LedgerWrite \/ LedgerRead

LedgerSpec == LedgerInit /\ [][LedgerNext]_vars

(***************************************************************************)
(* Properties                                                               *)
(***************************************************************************)
Done == pc = "done"

Failed == ret.kind = "raise" \/ (ret.kind = "return" /\ ret.code # 0)

\* the build resolved its actions and every url() returned: it got past "Gather
\* the complete set of URLs"
UrlsGathered ==
    /\ pc \notin {"read_urls", "load_actions", "gather_urls"}
    /\ UrlsRead(start.urlsFile).exc = "none"
    /\ redirects.wellformed
    /\ \A i \in 1..Len(actions) : Url(actions[i]).exc = "none"

\* the UrlPaths that more than one of the resolved actions computes
DuplicateUrls ==
    {Url(actions[i]).url : i \in {i \in 1..Len(actions) :
        \E j \in 1..Len(actions) : j # i /\ Url(actions[j]) = Url(actions[i])}}

Claimants(u) == SelectSeq(actions, LAMBDA a : Url(a).url = u)

NoActionExecuted == futures = <<>> /\ wpc = <<>>

Untouched == dest = start.dest /\ urlsFile = start.urlsFile

\* C1: when two or more of the resolved actions compute the same UrlPath, the
\* build returns 1, and the destination directory and the ledger file stay as they
\* were when the build started and no action is executed.
C1_ConflictFailsUntouched ==
    (UrlsGathered /\ DuplicateUrls # {}) =>
        /\ Untouched
        /\ NoActionExecuted
        /\ pc \in {"check_conflicts", "done"}
        /\ Done => ret = Return(1)

C1_Witness ==
    /\ Done
    /\ UrlsGathered
    /\ DuplicateUrls # {}
    /\ HasMarker(start.dest)
    /\ ret = Return(1)

MarkerMissing(d) == d.kind = "dir" /\ ~HasMarker(d)

\* C2: a build that finds the destination an existing directory without the
\* marker file fails, leaves that directory and the ledger as they were and
\* executes no action; and whenever a step removes the destination directory,
\* the marker file was in it.
C2_NoMarkerNoDelete ==
    /\ [](MarkerMissing(start.dest) =>
            /\ Untouched
            /\ NoActionExecuted
            /\ Done => Failed)
    /\ [][(dest.kind = "dir" /\ dest'.kind # "dir") => HasMarker(dest)]_vars

C2_Witness ==
    /\ Done
    /\ MarkerMissing(start.dest)
    /\ start.dest.tree # {}
    /\ ret = Return(1)
    /\ \E k \in 1..Len(log) : log[k].kind = "nomarker"

\* the UrlPaths of the ledger read at the start that no resolved action claims
Forgotten == old_urls \ {Url(actions[i]).url : i \in 1..Len(actions)}

\* none of the fatal conditions of the set-up phase: the conflict check passes
\* and the destination is absent or a directory with the marker
SetupPasses ==
    /\ UrlsGathered
    /\ DuplicateUrls = {}
    /\ start.dest.kind = "absent" \/ HasMarker(start.dest)

Logged(kind, url) == \E k \in 1..Len(log) : log[k].kind = kind /\ log[k].url = url

\* C3: a build whose ledger holds a UrlPath no resolved action claims returns 1,
\* reports that UrlPath as forgotten and leaves the ledger file as it was.
C3_ForgottenReported ==
    (Done /\ SetupPasses /\ Forgotten # {}) =>
        /\ ret = Return(1)
        /\ \A u \in Forgotten : Logged("forgotten", u)
        /\ urlsFile = start.urlsFile

\* the actions whose transformation raises
RaisingActions == {i \in 1..Len(actions) : SourceRaises(actions[i])}

ResultLogged(i, ok) ==
    \E k \in 1..Len(log) :
        /\ log[k].kind = "result"
        /\ log[k].url = PathStr(DestRelpath(actions[i]))
        /\ log[k].ok = ok

\* C4: when the transformation of one MetadataTransform action raises, every
\* other action has run to completion when build() ends, is reported with a
\* successful Result, and its output file is in the destination tree.
C4_FailureIsolated ==
    (Done /\ SetupPasses /\ wpc # <<>>
          /\ \E r \in RaisingActions :
                RaisingActions = {r} /\ actions[r].cls = "IndexHtmlProcessor") =>
        \A i \in Workers \ RaisingActions :
            /\ wpc[i] = "done"
            /\ futures[i] = Returned(TRUE, <<>>)
            /\ ResultLogged(i, TRUE)
            /\ FileEntry(DestRelpath(actions[i]), Output(actions[i])) \in dest.tree

\* C5: a build in which the Result of some action has success = FALSE does not
\* return 0.
C5_FailedResultFailsBuild ==
    (Done /\ \E i \in 1..Len(futures) :
                futures[i].state = "result" /\ ~futures[i].success) =>
        ret # Return(0)

\* the fatal conditions of a build, read off what the build started from
BadLedgerHeader == start.urlsFile.exists /\ ReadLine(start.urlsFile.text) # FILE_HEADER

BadRedirects == ~redirects.wellformed

DestNotDirectory == start.dest.kind = "file"

\* C6 as stated: a malformed redirects file, a malformed ledger header, a
\* UrlPath claimed twice, a destination that is not a directory and a destination
\* directory without the marker each end build() by returning 1 (forgotten URLs
\* too, unless an exception left an action first), and build() returns 0 only
\* when none of them occurred.
C6_EveryFatalReturnsOne ==
    Done =>
        /\ BadLedgerHeader => ret = Return(1)
        /\ BadRedirects => ret = Return(1)
        /\ (UrlsGathered /\ DuplicateUrls # {}) => ret = Return(1)
        /\ (UrlsGathered /\ DuplicateUrls = {} /\ DestNotDirectory) => ret = Return(1)
        /\ (UrlsGathered /\ DuplicateUrls = {} /\ MarkerMissing(start.dest)) => ret = Return(1)
        /\ (SetupPasses /\ Forgotten # {}) => ret = Return(1) \/ ret.kind = "raise"
        /\ ret = Return(0) =>
                /\ ~BadLedgerHeader /\ ~BadRedirects /\ DuplicateUrls = {}
                /\ ~DestNotDirectory /\ ~MarkerMissing(start.dest) /\ Forgotten = {}

\* C6: every fatal condition makes build() fail, and build() returns 0 only when
\* none occurred; it returns 1 for a UrlPath claimed twice, for a destination
\* directory without the marker and for forgotten URLs found by the audit, and it
\* ends with an exception for a malformed ledger header (RuntimeError), a
\* malformed redirects file (TOMLDecodeError) and a destination that is not a
\* directory (FileExistsError).
C6_FatalEndsBuild ==
    Done =>
        /\ BadLedgerHeader => ret = Raise("RuntimeError")
        /\ (~BadLedgerHeader /\ UrlsRead(start.urlsFile).exc = "none" /\ BadRedirects) =>
                ret = Raise("TOMLDecodeError")
        /\ (UrlsGathered /\ DuplicateUrls # {}) => ret = Return(1)
        /\ (UrlsGathered /\ DuplicateUrls = {} /\ DestNotDirectory) =>
                ret = Raise("FileExistsError")
        /\ (UrlsGathered /\ DuplicateUrls = {} /\ MarkerMissing(start.dest)) => ret = Return(1)
        /\ (SetupPasses /\ Forgotten # {}) => ret = Return(1) \/ ret.kind = "raise"
        /\ ret = Return(0) =>
                /\ ~BadLedgerHeader /\ ~BadRedirects /\ DuplicateUrls = {}
                /\ ~DestNotDirectory /\ ~MarkerMissing(start.dest) /\ Forgotten = {}

C6_Witness ==
    /\ Done
    /\ UrlsGathered
    /\ DuplicateUrls = {}
    /\ DestNotDirectory
    /\ ret = Raise("FileExistsError")

IsSortedSeq(q) == \A i, j \in 1..Len(q) : i < j => StrLess(q[i], q[j])

\* C7: Urls(S).write(basedir) followed by Urls.read(basedir) yields exactly S,
\* and the file holds the header and then the members of S, one per line, in
\* sorted order.
C7_LedgerRoundTrip ==
    lpc = "done" =>
        /\ ledgerOut = [exc |-> "none", urls |-> SetOf(ledgerIn)]
        /\ \E q \in [1..Len(ledgerIn) -> SetOf(ledgerIn)] :
              /\ SetOf(q) = SetOf(ledgerIn)
              /\ IsSortedSeq(q)
              /\ Lines(urlsFile.text) = <<FILE_HEADER>> \o [i \in 1..Len(q) |-> q[i] \o NL]

\* C8: two builds of the same sources, the first starting without a destination
\* directory, leave the same destination tree and the same ledger file (stated
\* for the runs in which both builds return 0).
C8_Idempotent ==
    (nbuild = 2 /\ Done /\ prev.began = NoDest /\ prev.ret = Return(0) /\ ret = Return(0)) =>
        /\ dest = prev.dest
        /\ urlsFile = prev.urlsFile

\* C9: a Redirect publishes its old_url verbatim, "/foo/" is written at
\* foo/index.html, and a Redirect that a build has executed has written its
\* destination file, which holds the refresh to new_url.
C9_RedirectWritten ==
    [][/\ RedirectDestRelpath(URL_FOO_DIR) = <<FOO, INDEX_HTML>>
       /\ \A i \in Workers :
             (actions[i].cls = "Redirect" /\ wpc[i] = "queued" /\ wpc'[i] = "done") =>
                 /\ Url(actions[i]).url = actions[i].old_url
                 /\ futures'[i] = Returned(TRUE, <<>>)
                 /\ FileEntry(RedirectDestRelpath(actions[i].old_url),
                              <<"refresh", actions[i].new_url>>) \in dest'.tree]_vars

\* C10: when the conflict check fails, every UrlPath with more than one claimant
\* has been reported together with all of its claimants when build() returns.
C10_EveryConflictReported ==
    (Done /\ UrlsGathered /\ DuplicateUrls # {}) =>
        \A u \in DuplicateUrls :
            \E k \in 1..Len(log) :
                /\ log[k].kind = "conflict"
                /\ log[k].url = u
                /\ log[k].names = Claimants(u)

\* the destination file of a is the destination file of b, or a directory above it
DestClash(a, b) ==
    \/ DestRelpath(a) = DestRelpath(b)
    \/ DestRelpath(a) \in Prefixes(Parent(DestRelpath(b)))

\* C11: whenever the conflict check passes, no two actions have the same
\* destination file and no action's destination file is a directory above the
\* destination file of another.
C11_DisjointDestinations ==
    (UrlsGathered /\ DuplicateUrls = {}) =>
        \A i, j \in 1..Len(actions) : i # j => ~DestClash(actions[i], actions[j])

\* C12: no exception leaves the run of an action: no future ever holds an
\* exception, and a build that submitted its actions ends by returning from the
\* audit.
C12_ExceptionsCaught ==
    /\ \A i \in 1..Len(futures) : futures[i].state # "exception"
    /\ (Done /\ wpc # <<>>) => ret.kind = "return"

\* C13: in the step in which an action writes its destination file, the parent
\* directory of that file exists.
C13_ParentsExistAtWrite ==
    [][\A i \in Workers :
          (/\ \/ wpc[i] = "run_inner" /\ ~SourceRaises(actions[i])
              \/ wpc[i] = "queued" /\ actions[i].cls = "Redirect"
           /\ wpc'[i] = "done") =>
              IsDir(dest.tree, Parent(DestRelpath(actions[i])))]_vars

\* C14: from the submission of the actions on, so in every state in which an
\* action has started, the destination is a directory that holds the marker
\* file, the one the marker check of a following build accepts; and the actions
\* are submitted on a directory that holds nothing but the marker file.
C14_MarkerBeforeActions ==
    /\ (pc \in {"submit", "gather", "audit"} \/ wpc # <<>>) =>
            HasMarker(dest) /\ MayDelete(dest)
    /\ pc = "submit" => dest.tree = {FileEntry(MarkerPath, <<"empty", <<>>>>)}

C14_Witness ==
    /\ pc = "gather"
    /\ HasMarker(start.dest)
    /\ \E i \in Workers : wpc[i] = "run_inner"
    /\ \E i \in Workers : wpc[i] = "done"
    /\ HasMarker(dest)
    /\ ~IsFile(dest.tree, <<BAR>>)

\* C15: when the audit starts and when build() has ended, every submitted
\* action has completed.
C15_AuditAfterAllActions ==
    (pc = "audit" \/ Done) => \A i \in Workers : wpc[i] = "done"

\* the UrlPaths claimed by the resolved actions
Claimed == {Url(actions[i]).url : i \in 1..Len(actions)}

\* C16: the audit's new_urls is the set of UrlPaths of all resolved actions; a
\* UrlPath claimed by an action whose execution failed is not reported as
\* forgotten, and is in the ledger when the build wrote it.
C16_FailedStillClaimed ==
    /\ pc = "audit" => NewUrls(url_actions) = Claimed
    /\ Done =>
          \A i \in 1..Len(futures) :
              (futures[i].state # "pending" /\ ~futures[i].success) =>
                  /\ ~Logged("forgotten", Url(actions[i]).url)
                  /\ ret = Return(0) => Url(actions[i]).url \in UrlsRead(urlsFile).urls

C16_Witness ==
    /\ Done
    /\ ret = Return(0)
    /\ \E i \in 1..Len(futures) :
          /\ futures[i].state = "result" /\ ~futures[i].success
          /\ Url(actions[i]).url \in old_urls
          /\ Url(actions[i]).url \in UrlsRead(urlsFile).urls

\* C17: a step of a build changes the ledger file only as the step that ends the
\* build with exit code 0, the forgotten set being empty; a build that returned
\* 0 leaves the ledger of exactly the UrlPaths its actions claim, and a build
\* that ended otherwise leaves the ledger file as it found it.
C17_LedgerWrittenOnceAtEnd ==
    /\ [][urlsFile' # urlsFile =>
              /\ pc = "audit" /\ pc' = "done"
              /\ ret' = Return(0)
              /\ Forgotten = {}]_vars
    /\ [](Done =>
              IF ret = Return(0)
              THEN /\ urlsFile = File(LedgerText(Claimed))
                   /\ UrlsRead(urlsFile) = [exc |-> "none", urls |-> Claimed]
                   /\ Forgotten = {}
              ELSE urlsFile = start.urlsFile)

C17_Witness ==
    /\ Done
    /\ ret = Return(0)
    /\ Cardinality(Claimed) = 2
    /\ ~start.urlsFile.exists
    /\ urlsFile = File(LedgerText(Claimed))

\* the UrlPaths a log reports as forgotten
ForgottenLogged(l) == {l[k].url : k \in {k \in 1..Len(l) : l[k].kind = "forgotten"}}

\* C18: when a build has returned 1 reporting forgotten UrlPaths, the build that
\* follows it on the same sources, redirects and ledger file returns 1 again and
\* reports the same forgotten set, the ledger file still unchanged.
C18_ForgottenRepeats ==
    (nbuild = 2 /\ Done /\ prev.ret = Return(1) /\ ForgottenLogged(prev.log) # {}) =>
        /\ ret = Return(1)
        /\ ForgottenLogged(log) = ForgottenLogged(prev.log)
        /\ urlsFile = prev.urlsFile

\* the file exists and its first line is not the header of a ledger
ForeignFile(file) ==
    file.exists /\ (Lines(file.text) = <<>> \/ Head(Lines(file.text)) # FILE_HEADER)

\* C19: Urls.write on an existing file whose first line is not the expected
\* header raises and leaves the file as it was; on an absent file and on a file
\* whose first line is the header it writes the ledger of its set.
C19_WriteRefusesForeignFile ==
    lpc # "write" =>
        IF ForeignFile(start.urlsFile)
        THEN lpc = "refused" /\ urlsFile = start.urlsFile
        ELSE /\ lpc \in {"read", "done"}
             /\ urlsFile = File(LedgerText(SetOf(ledgerIn)))

C19_Witness ==
    /\ lpc = "refused"
    /\ ledgerIn # <<>>
    /\ urlsFile = File(<<120, 10>>)

\* "/foo/index.html"
URL_FOO_INDEX == URL_FOO_DIR \o INDEX_HTML

\* C20: over builds between which the sources and the redirects change, every
\* step that changes the ledger file stores a superset of what the file held and
\* of what the build read at its start, and a build that returned 0 leaves a
\* ledger that holds every UrlPath of the ledger it started from.
C20_LedgerNeverLosesUrl ==
    /\ [][urlsFile' # urlsFile =>
              /\ UrlsRead(urlsFile).urls \subseteq UrlsRead(urlsFile').urls
              /\ old_urls = UrlsRead(start.urlsFile).urls
              /\ old_urls \subseteq UrlsRead(urlsFile').urls]_vars
    /\ [](Done /\ ret = Return(0) =>
              /\ UrlsRead(urlsFile).exc = "none"
              /\ UrlsRead(start.urlsFile).urls \subseteq UrlsRead(urlsFile).urls)

C20_Witness ==
    /\ nbuild = 2
    /\ Done
    /\ ret = Return(0)
    /\ UrlsRead(start.urlsFile).urls = {URL_FOO_INDEX}
    /\ UrlsRead(urlsFile).urls = {URL_FOO_INDEX, URL_BAR}

====
